---- MODULE Spec2Model ----
(***************************************************************************)
(* Sigil Protocol CLI (src/src/main.rs): the chaos transform, seed         *)
(* derivation, the signed archive container (commit / verify / recover),   *)
(* embed / extract and key derivation, as state machines over a file       *)
(* system of byte sequences.                                               *)
(*                                                                         *)
(* Bytes are the integers 0..255.  A u64 that the program only ever moves  *)
(* as digest bytes (the seed) is kept as its 8 little-endian bytes.        *)
(* f64 values are decimal floating-point numbers of Digits significant     *)
(* digits with IEEE's overflow threshold, infinities and NaN.              *)
(***************************************************************************)
EXTENDS Integers, Sequences, FiniteSets, TLC

VARIABLES
    c_data,     \* apply_chaos round trip: the input bytes
    c_seed,     \* the seed (u64 as 8 little-endian bytes)
    c_levels,   \* the level count
    c_fwd,      \* apply_chaos(data, seed, levels, true)
    c_back,     \* apply_chaos(c_fwd, seed, levels, false)
    c_pc,       \* "idle" | "start" | "forward" | "done"
    fs,         \* the file system: path -> [exists, data]
    res,        \* what the last command returned: [cmd, path, ret, msg]
    made,       \* history: what the last successful sigil_commit wrote
    tamper,     \* history: how the archive was changed since
    dl,         \* history: output path -> label of the sigil_derive run on it
    gs          \* generate_seed step by step: [pc, path, i, step, hasher,
                \* offsets, seeds]

chaosVars == <<c_data, c_seed, c_levels, c_fwd, c_back, c_pc>>

vars == <<c_data, c_seed, c_levels, c_fwd, c_back, c_pc, fs, res, made, tamper, dl, gs>>

(***************************************************************************)
(* Bytes                                                                   *)
(***************************************************************************)
\* TRUE; has TLC evaluate v here, ahead of a recursive call it is passed to
Evaluated(v) == v = v

Min(a, b) == IF a <= b THEN a ELSE b

RECURSIVE BitXor(_, _)
\* u8 ^ u8
BitXor(a, b) ==
    IF a = 0 /\ b = 0 THEN 0
    ELSE (((a % 2) + (b % 2)) % 2) + (2 * BitXor(a \div 2, b \div 2))

RECURSIVE Pow10(_)
Pow10(n) == IF n <= 0 THEN 1 ELSE 10 * Pow10(n - 1)

RECURSIVE Pow2(_)
Pow2(n) == IF n <= 0 THEN 1 ELSE 2 * Pow2(n - 1)

RECURSIVE BitLen(_)
BitLen(n) == IF n = 0 THEN 0 ELSE 1 + BitLen(n \div 2)

\* Rust's s[from..to] with 0-based bounds, from <= to <= Len(s)
Slice(s, from, to) == SubSeq(s, from + 1, to)

(***************************************************************************)
(* f64.  [k, s, m, e] is s * m * 10^e with m = 0 or 10^(Digits-1) <= m <   *)
(* 10^Digits; k is "fin", "inf" (signed by s) or "nan".                    *)
(***************************************************************************)
Digits == 4

\* f64::MAX = 1.7976931348623157e308
F64MaxExp == 308

F64MaxLead == 1797

\* below the smallest subnormal (4.9e-324) a result rounds to zero
F64MinExp == -324

FZero == [k |-> "fin", s |-> 1, m |-> 0, e |-> 0]

FNaN == [k |-> "nan", s |-> 1, m |-> 0, e |-> 0]

FInf(sg) == [k |-> "inf", s |-> sg, m |-> 0, e |-> 0]

RECURSIVE NumDigits(_)
NumDigits(n) == IF n < 10 THEN 1 ELSE 1 + NumDigits(n \div 10)

\* sg * m1 * 10^e1 with m1 of Digits digits: overflow to infinity above
\* f64::MAX, underflow to zero; top is the exponent of the leading digit
FRange(sg, m1, e1, top) ==
    IF top > F64MaxExp \/ (top = F64MaxExp /\ m1 > F64MaxLead) THEN FInf(sg)
    ELSE IF top < F64MinExp THEN FZero
    ELSE [k |-> "fin", s |-> sg, m |-> m1, e |-> e1]

\* r is n with d digits dropped, rounded; the rounding may carry to 10^Digits
FCarry(sg, r, e0) ==
    IF r = Pow10(Digits) THEN FRange(sg, Pow10(Digits - 1), e0 + 1, e0 + Digits)
    ELSE FRange(sg, r, e0, e0 + Digits - 1)

FRound(sg, n, ex, d) ==
    FCarry(sg, IF d > 0 THEN (n + (Pow10(d) \div 2)) \div Pow10(d)
               ELSE n * Pow10(-d),
           ex + d)

\* round-to-nearest of sg * n * 10^ex (n >= 0) to Digits digits
FNorm(sg, n, ex) ==
    IF n = 0 THEN FZero ELSE FRound(sg, n, ex, NumDigits(n) - Digits)

\* round-to-nearest of v * 10^ex, v of either sign
FNormSigned(v, ex) == FNorm(IF v < 0 THEN -1 ELSE 1, IF v < 0 THEN -v ELSE v, ex)

FromInt(n) == FNormSigned(n, 0)

\* a decimal literal n * 10^ex
Lit(n, ex) == FNorm(1, n, ex)

FNeg(a) == [a EXCEPT !.s = -a.s]

FAdd(a, b) ==
    IF a.k = "nan" \/ b.k = "nan" THEN FNaN
    ELSE IF a.k = "inf" /\ b.k = "inf"
         THEN (IF a.s = b.s THEN a ELSE FNaN)
    ELSE IF a.k = "inf" THEN a
    ELSE IF b.k = "inf" THEN b
    ELSE IF a.m = 0 THEN b
    ELSE IF b.m = 0 THEN a
    ELSE LET hi == IF a.e >= b.e THEN a ELSE b
             lo == IF a.e >= b.e THEN b ELSE a
             df == hi.e - lo.e
         IN  IF df > Digits + 1 THEN hi
             ELSE FNormSigned((hi.s * hi.m * Pow10(df)) + (lo.s * lo.m), lo.e)

FSub(a, b) == FAdd(a, FNeg(b))

FMul(a, b) ==
    IF a.k = "nan" \/ b.k = "nan" THEN FNaN
    ELSE IF a.k = "inf" \/ b.k = "inf"
         THEN (IF (a.k = "fin" /\ a.m = 0) \/ (b.k = "fin" /\ b.m = 0)
               THEN FNaN ELSE FInf(a.s * b.s))
    ELSE FNorm(a.s * b.s, a.m * b.m, a.e + b.e)

FDiv(a, b) ==
    IF a.k = "nan" \/ b.k = "nan" THEN FNaN
    ELSE IF a.k = "inf"
         THEN (IF b.k = "inf" THEN FNaN ELSE FInf(a.s * b.s))
    ELSE IF b.k = "inf" THEN FZero
    ELSE IF b.m = 0 THEN (IF a.m = 0 THEN FNaN ELSE FInf(a.s * b.s))
    ELSE FNorm(a.s * b.s, (a.m * Pow10(Digits + 1)) \div b.m,
               a.e - b.e - (Digits + 1))

\* the value scaled by 10^Digits as an integer, for |a| < 1000
ToFixed(a) ==
    LET sh == a.e + Digits
    IN  IF sh >= 0 THEN a.s * a.m * Pow10(sh)
        ELSE IF -sh > Digits THEN 0
        ELSE a.s * ((a.m + (Pow10(-sh) \div 2)) \div Pow10(-sh))

FromFixed(v) == FNormSigned(v, -Digits)

FixOne == Pow10(Digits)

\* pi and pi/2 scaled by 10^Digits
FixPi == 31416

FixHalfPi == 15708

\* sin of r / 10^Digits for 0 <= r <= FixHalfPi: the Taylor series to x^9
SinPoly(r) ==
    LET x2 == (r * r) \div FixOne
        p4 == FixOne - (x2 \div 72)
        p3 == FixOne - (((x2 * p4) \div FixOne) \div 42)
        p2 == FixOne - (((x2 * p3) \div FixOne) \div 20)
        p1 == FixOne - (((x2 * p2) \div FixOne) \div 6)
    IN  (r * p1) \div FixOne

\* sin of f / 10^Digits, any integer f
SinFixed(f) ==
    LET r  == f % (2 * FixPi)
        h  == IF r >= FixPi THEN r - FixPi ELSE r
        q  == IF h > FixHalfPi THEN FixPi - h ELSE h
    IN  IF r >= FixPi THEN -SinPoly(q) ELSE SinPoly(q)

\* f64::sin.  From |a| >= 1000 on the result, some value in [-1, 1], is below
\* the last digit of every sum hybrid_chaos adds it to, and is taken as 0.
FSin(a) ==
    IF a.k # "fin" THEN FNaN
    ELSE IF a.m = 0 THEN FZero
    ELSE IF a.e >= 0 THEN FZero
    ELSE FromFixed(SinFixed(ToFixed(a)))

\* f64::cos
FCos(a) ==
    IF a.k # "fin" THEN FNaN
    ELSE IF a.m = 0 THEN FromInt(1)
    ELSE IF a.e >= 0 THEN FZero
    ELSE FromFixed(SinFixed(ToFixed(a) + FixHalfPi))

\* Rust's `f64 as u8`: saturating, NaN to 0, truncating toward zero
AsU8(a) ==
    IF a.k = "nan" THEN 0
    ELSE IF a.k = "inf" THEN (IF a.s > 0 THEN 255 ELSE 0)
    ELSE IF a.s < 0 \/ a.m = 0 THEN 0
    ELSE IF a.e >= 0 THEN 255
    ELSE IF -a.e > Digits THEN 0
    ELSE Min(255, a.m \div Pow10(-a.e))

(***************************************************************************)
(* u64 as 8 little-endian bytes                                            *)
(***************************************************************************)
RECURSIVE LeMod(_, _, _)
\* the value of bytes[1..i] modulo md
LeMod(bytes, i, md) ==
    IF i = 0 THEN 0
    ELSE LET hi == LeMod(SubSeq(bytes, 2, Len(bytes)), i - 1, md)
         IN  ((hi * 256) + bytes[1]) % md

RECURSIVE TopByte(_, _)
\* index of the most significant non-zero byte, 0 when the value is 0
TopByte(bytes, i) ==
    IF i = 0 THEN 0 ELSE IF bytes[i] # 0 THEN i ELSE TopByte(bytes, i - 1)

\* `seed as f64 % 1e5`: the u64 rounded to 53 significant bits (ties to even),
\* then the exact remainder
U64AsF64Mod(bytes, md) ==
    LET t    == TopByte(bytes, 8)
        bits == IF t = 0 THEN 0 ELSE (8 * (t - 1)) + BitLen(bytes[t])
        sh   == bits - 53
        u    == Pow2(sh)
        low2 == bytes[1] + (256 * bytes[2])
        rem  == low2 % u
        odd  == ((low2 \div u) % 2) = 1
        up   == (2 * rem > u) \/ (2 * rem = u /\ odd)
        v    == LeMod(bytes, 8, md)
    IN  IF sh <= 0 THEN v
        ELSE (v + md - (rem % md) + (IF up THEN u % md ELSE 0)) % md

RECURSIVE MulSmall(_, _, _)
\* bytes * k + carry, truncated to Len(bytes) bytes (wrapping)
MulSmall(bytes, k, carry) ==
    IF bytes = <<>> THEN <<>>
    ELSE LET v == (bytes[1] * k) + carry
         IN  <<v % 256>> \o MulSmall(Tail(bytes), k, v \div 256)

\* u64::wrapping_mul
wrapping_mul(bytes, k) == MulSmall(bytes, k, 0)

(***************************************************************************)
(* hybrid_chaos and apply_chaos                                            *)
(***************************************************************************)
\* a * x * x
HenonSquare(x) == FMul(FMul(Lit(14, -1), x), x)

\* the Henon step: (1 - a*x*x + y, b*x), or its "inverse" branch
\* ((1 - y + a*x*x) / b, x)
HenonX(x, y, axx, forward) ==
    IF forward THEN FAdd(FSub(FromInt(1), axx), y)
    ELSE FDiv(FAdd(FSub(FromInt(1), y), axx), Lit(3, -1))

HenonY(x, forward) == IF forward THEN FMul(Lit(3, -1), x) ELSE x

\* sin(pi * x) + cos(e * y)
Trig(x, y) ==
    FAdd(FSin(FMul(Lit(3141593, -6), x)), FCos(FMul(Lit(2718282, -6), y)))

\* 1.0 + m / c_squared with m = byte / 255
MassFactor(byte) ==
    FAdd(FromInt(1),
         FDiv(FDiv(FromInt(byte), FromInt(255)), Lit(898755179, 8)))

hybrid_chaos(x, y, byte, forward) ==
    <<FMul(FAdd(HenonX(x, y, HenonSquare(x), forward), Trig(x, y)),
           MassFactor(byte)),
      HenonY(x, forward)>>

\* the XOR mask of one step: ((x * 256.0) as u8) ^ ((y * 256.0) as u8)
ChaosMask(x, y) ==
    BitXor(AsU8(FMul(x, FromInt(256))), AsU8(FMul(y, FromInt(256))))

RECURSIVE ChaosPass(_, _, _, _, _)
RECURSIVE ChaosByte(_, _, _, _)
\* one pass of the inner loop from byte i on: [out, x, y]
ChaosPass(bytes, i, x, y, forward) ==
    IF Evaluated(<<bytes, x, y>>) /\ i > Len(bytes)
    THEN [out |-> bytes, x |-> x, y |-> y]
    ELSE ChaosByte(bytes, i, hybrid_chaos(x, y, bytes[i], forward), forward)

\* *byte ^= mask with the new (x, y) = n, then on to the next byte
ChaosByte(bytes, i, n, forward) ==
    ChaosPass([bytes EXCEPT ![i] = BitXor(bytes[i], ChaosMask(n[1], n[2]))],
              i + 1, n[1], n[2], forward)

RECURSIVE ChaosLevels(_, _, _, _, _)
RECURSIVE ChaosNextLevel(_, _, _)
\* the outer loop: `levels` passes, (x, y) carried from pass to pass
ChaosLevels(bytes, levels, x, y, forward) ==
    IF Evaluated(<<bytes, x, y>>) /\ levels = 0 THEN bytes
    ELSE ChaosNextLevel(ChaosPass(bytes, 1, x, y, forward), levels, forward)

ChaosNextLevel(p, levels, forward) ==
    ChaosLevels(p.out, levels - 1, p.x, p.y, forward)

apply_chaos(data, seed, levels, forward) ==
    LET x == FDiv(FromInt(U64AsF64Mod(seed, 100000)), Lit(1, 5))
        y == FDiv(FromInt(U64AsF64Mod(wrapping_mul(seed, 31), 100000)), Lit(1, 5))
    IN  ChaosLevels(data, levels, x, y, forward)

(***************************************************************************)
(* Markers and byte-pattern search                                         *)
(***************************************************************************)
\* b"SIGIL-EMBED-"
EMBED_MARKER == <<83, 73, 71, 73, 76, 45, 69, 77, 66, 69, 68, 45>>

\* b"SIGIL-ARCHIVE\n"
ARCHIVE_HEADER == <<83, 73, 71, 73, 76, 45, 65, 82, 67, 72, 73, 86, 69, 10>>

\* b"\n--SIGNATURE--\n"
SIGNATURE_MARKER == <<10, 45, 45, 83, 73, 71, 78, 65, 84, 85, 82, 69, 45, 45, 10>>

\* b"\n--PUBKEY--\n"
PUBKEY_MARKER == <<10, 45, 45, 80, 85, 66, 75, 69, 89, 45, 45, 10>>

\* the 0-based offsets at which pat occurs in data: data.windows(pat.len())
Occurrences(data, pat) ==
    {i \in 0..(Len(data) - Len(pat)) : SubSeq(data, i + 1, i + Len(pat)) = pat}

SetMin(S) == CHOOSE x \in S : \A y \in S : x <= y

SetMax(S) == CHOOSE x \in S : \A y \in S : x >= y

\* Option<usize> is -1 for None
None == -1

\* a search that answers "at the end" where pat does not occur
PositionOrEnd(data, pat) ==
    IF Occurrences(data, pat) = {} THEN Len(data) ELSE SetMin(Occurrences(data, pat))

\* .windows(n).position(|w| w == pat)
position(data, pat) ==
    IF Occurrences(data, pat) = {} THEN None ELSE SetMin(Occurrences(data, pat))

\* .windows(n).rposition(|w| w == pat)
rposition(data, pat) ==
    IF Occurrences(data, pat) = {} THEN None ELSE SetMax(Occurrences(data, pat))

starts_with(data, pat) ==
    Len(data) >= Len(pat) /\ SubSeq(data, 1, Len(pat)) = pat

\* every length the model meets is below 2^24; a u64 from 2^24 on is kept as 2^24
HugeLen == Pow2(24)

\* u64::to_le_bytes of a length
to_le_bytes(n) ==
    [i \in 1..8 |-> IF i <= 3 THEN (n \div Pow2(8 * (i - 1))) % 256 ELSE 0]

\* u64::from_le_bytes(..) as usize
from_le_bytes(b) ==
    IF \E i \in 4..8 : b[i] # 0 THEN HugeLen
    ELSE b[1] + (256 * b[2]) + (65536 * b[3])

(***************************************************************************)
(* sha2::Sha256.  A stand-in digest: two running checksums whose values    *)
(* are the first four digest bytes, so that texts differing in one byte    *)
(* never share a digest.  Collision resistance beyond that is assumed, not *)
(* modelled.                                                               *)
(***************************************************************************)
DIGEST_LENGTH == 32

Sha256New == [a |-> 1, b |-> 0]

RECURSIVE Sha256Fold(_, _, _)
Sha256Fold(h, bytes, i) ==
    IF Evaluated(h) /\ i > Len(bytes) THEN h
    ELSE LET a1 == ((h.a * 31) + bytes[i] + 1) % 65521
             b1 == ((h.b * 17) + a1) % 65519
         IN  Sha256Fold([a |-> a1, b |-> b1], bytes, i + 1)

\* hasher.update(bytes)
Sha256Update(h, bytes) == Sha256Fold(h, bytes, 1)

\* hasher.finalize()
Sha256Finalize(h) ==
    [j \in 1..DIGEST_LENGTH |->
        CASE j = 1 -> h.a % 256
          [] j = 2 -> h.a \div 256
          [] j = 3 -> h.b % 256
          [] j = 4 -> h.b \div 256
          [] OTHER -> ((h.a * j) + (h.b * (j + 1)) + j) % 256]

Sha256(bytes) == Sha256Finalize(Sha256Update(Sha256New, bytes))

(***************************************************************************)
(* zstd::encode_all / decode_all.  A frame of one raw block, which is what *)
(* the encoder emits for the short inputs of the model: the input bytes    *)
(* appear in the frame as they are.                                        *)
(***************************************************************************)
ZSTD_MAGIC == <<40, 181, 47, 253>>

\* the window descriptor the level's window log gives
ZstdWindow(level) == ((18 + level) - 10) * 8

\* Block_Header: last block, raw type, 21-bit size
ZstdBlockHeader(n) ==
    LET v == (n * 8) + 1
    IN  <<v % 256, (v \div 256) % 256, v \div 65536>>

zstd_encode_all(data, level) ==
    ZSTD_MAGIC \o <<0, ZstdWindow(level)>> \o ZstdBlockHeader(Len(data)) \o data

ZstdHeaderLen == Len(ZSTD_MAGIC) + 2 + 3

\* [ok, data]
zstd_decode_all(bytes) ==
    IF /\ Len(bytes) >= ZstdHeaderLen
       /\ starts_with(bytes, ZSTD_MAGIC)
       /\ bytes[5] = 0
       /\ SubSeq(bytes, 7, 9) = ZstdBlockHeader(Len(bytes) - ZstdHeaderLen)
    THEN [ok |-> TRUE, data |-> SubSeq(bytes, ZstdHeaderLen + 1, Len(bytes))]
    ELSE [ok |-> FALSE, data |-> <<>>]

(***************************************************************************)
(* ed25519_dalek 1.x.  Keys are numbered; a key's secret bytes, its public *)
(* bytes and its signatures are stand-ins computed from the number.        *)
(* Verification is ideal: a signature verifies exactly when it is the      *)
(* signature a holder of the matching secret made over the same message.   *)
(***************************************************************************)
SECRET_KEY_LENGTH == 32

PUBLIC_KEY_LENGTH == 32

SIGNATURE_LENGTH == 64

KEYPAIR_LENGTH == SECRET_KEY_LENGTH + PUBLIC_KEY_LENGTH

NumKeys == 1

Keys == 1..NumKeys

SecretBytes(k) == [i \in 1..SECRET_KEY_LENGTH |-> ((k * 53) + (i * 7)) % 256]

\* a compressed point decompresses
IsPoint(b) == (b[1] + b[PUBLIC_KEY_LENGTH]) % 2 = 0

\* the public key of a secret
PublicFromSecret(sec) ==
    [i \in 1..PUBLIC_KEY_LENGTH |->
        IF i < PUBLIC_KEY_LENGTH THEN ((sec[i] * 5) + (i * 3) + 1) % 256
        ELSE (((sec[1] * 5) + 4) % 2) + (2 * (sec[i] % 100))]

PublicBytes(k) == PublicFromSecret(SecretBytes(k))

\* keypair.to_bytes()
KeypairBytes(k) == SecretBytes(k) \o PublicBytes(k)

\* Keypair::from_bytes: [ok, secret, public]
Keypair_from_bytes(bytes) ==
    IF Len(bytes) # KEYPAIR_LENGTH
    THEN [ok |-> FALSE, secret |-> <<>>, public |-> <<>>]
    ELSE LET pub == SubSeq(bytes, SECRET_KEY_LENGTH + 1, KEYPAIR_LENGTH)
         IN  IF ~IsPoint(pub)
             THEN [ok |-> FALSE, secret |-> <<>>, public |-> <<>>]
             ELSE [ok |-> TRUE,
                   secret |-> SubSeq(bytes, 1, SECRET_KEY_LENGTH),
                   public |-> pub]

\* keypair.sign(msg).to_bytes(): R then S, S below 2^253
ed25519_sign(sec, pub, msg) ==
    LET R == Sha256(<<82>> \o sec \o msg)
        S == Sha256(<<83>> \o R \o pub \o msg \o sec)
    IN  R \o [S EXCEPT ![DIGEST_LENGTH] = S[DIGEST_LENGTH] % 16]

\* Signature::from_bytes succeeds
Signature_from_bytes_ok(bytes) ==
    Len(bytes) = SIGNATURE_LENGTH /\ bytes[SIGNATURE_LENGTH] < 32

\* PublicKey::from_bytes succeeds
PublicKey_from_bytes_ok(bytes) ==
    Len(bytes) = PUBLIC_KEY_LENGTH /\ IsPoint(bytes)

\* public_key.verify(msg, &signature) succeeds
ed25519_verify(pub, msg, sig) ==
    \E k \in Keys :
        PublicBytes(k) = pub /\ ed25519_sign(SecretBytes(k), pub, msg) = sig

(***************************************************************************)
(* generate_seed                                                           *)
(***************************************************************************)
\* vec![0u8; 1024 * 1024]
BufferLen == 1024 * 1024

\* for i in 0..10
SeedWindows == 10

\* a step rounded up
SeedStepCeil(file_size) == (file_size + (SeedWindows - 1)) \div SeedWindows

\* file_size / 10
SeedStep(file_size) == file_size \div SeedWindows

\* file.seek(SeekFrom::Start(off)); file.read(&mut buffer): a seek beyond the end
\* is no error and the read that follows returns no bytes
SeedRead(data, off) == SubSeq(data, off + 1, Min(Len(data), off + BufferLen))

RECURSIVE SeedHash(_, _, _, _)
\* the loop for i in 0..10 from i on
SeedHash(h, data, step, i) ==
    IF Evaluated(h) /\ i >= SeedWindows THEN h
    ELSE SeedHash(Sha256Update(h, SeedRead(data, i * step)), data, step, i + 1)

\* u64::from_le_bytes(result[..8])
SeedOfDigest(digest) == SubSeq(digest, 1, 8)

\* generate_seed on a file holding data
generate_seed(data) ==
    SeedOfDigest(Sha256Finalize(SeedHash(Sha256New, data, SeedStep(Len(data)), 0)))

(***************************************************************************)
(* The file system and command results                                     *)
(***************************************************************************)
Paths == {"in", "ar", "out", "key", "host", "media", "dk", "dk2"}

NoFile == [exists |-> FALSE, data |-> <<>>]

File(bytes) == [exists |-> TRUE, data |-> bytes]

NoFiles == [p \in Paths |-> NoFile]

Ok(m) == [ret |-> "Ok", msg |-> m]

Err(m) == [ret |-> "Err", msg |-> m]

\* an out-of-range slice aborts the process
Panic == [ret |-> "panic", msg |-> "slice index out of range"]

Result(cmd, path, r) == [cmd |-> cmd, path |-> path, ret |-> r.ret, msg |-> r.msg]

NoResult == [cmd |-> "none", path |-> "", ret |-> "", msg |-> ""]

NotMade ==
    [ok |-> FALSE, data |-> <<>>, levels |-> 0, seed |-> <<>>,
     compressed |-> <<>>, signature |-> <<>>, public |-> <<>>, archive |-> <<>>]

NoTamper == [kind |-> "none", pos |-> 0]

ChaosIdle ==
    /\ c_data = <<>> /\ c_seed = <<>> /\ c_levels = 0
    /\ c_fwd = <<>> /\ c_back = <<>> /\ c_pc = "idle"

\* the files generate_seed is run on
SeedPaths == {"in", "out", "media"}

SeedIdle ==
    [pc |-> "idle", path |-> "", i |-> 0, step |-> 0, hasher |-> Sha256New,
     offsets |-> <<>>, seeds |-> [p \in SeedPaths |-> <<>>]]

\* the files sigil_derive writes
DerivedPaths == {"dk", "dk2"}

\* no sigil_derive has run on the path
NoLabel == <<256>>

NoLabels == [p \in DerivedPaths |-> NoLabel]

(***************************************************************************)
(* sigil_commit                                                            *)
(***************************************************************************)
DefaultLevels == 3

\* the archive bytes sigil_commit writes, in order
ArchiveLayout(compressed, signature, public) ==
    ARCHIVE_HEADER \o compressed \o SIGNATURE_MARKER \o signature
        \o PUBKEY_MARKER \o public

\* sigil_commit once the input is read and the keypair is there
CommitParts(data, kp, levels, compression_level) ==
    LET seed        == generate_seed(data)
        transformed == apply_chaos(data, seed, levels, TRUE)
        compressed  == zstd_encode_all(transformed, compression_level)
        signature   == ed25519_sign(kp.secret, kp.public, compressed)
    IN  [ok |-> TRUE, data |-> data, levels |-> levels, seed |-> seed,
         compressed |-> compressed, signature |-> signature,
         public |-> kp.public,
         archive |-> ArchiveLayout(compressed, signature, kp.public)]

\* keypair_path is "" for None; gen is the key Keypair::generate draws
sigil_commit(input, output, keypair_path, levels, compression_level, gen) ==
    LET kp == IF keypair_path = ""
              THEN [ok |-> TRUE, secret |-> SecretBytes(gen), public |-> PublicBytes(gen)]
              ELSE Keypair_from_bytes(fs[keypair_path].data)
    IN  IF ~fs[input].exists
        THEN /\ res' = Result("commit", output, Err("Failed to read input file"))
             /\ UNCHANGED <<fs, made, tamper>>
        ELSE IF keypair_path # "" /\ ~fs[keypair_path].exists
        THEN /\ res' = Result("commit", output, Err("Failed to read keypair file"))
             /\ UNCHANGED <<fs, made, tamper>>
        ELSE IF ~kp.ok
        THEN /\ res' = Result("commit", output, Err("Invalid keypair file"))
             /\ UNCHANGED <<fs, made, tamper>>
        ELSE LET c == CommitParts(fs[input].data, kp, levels, compression_level)
             IN  /\ fs' = [fs EXCEPT ![output] = File(c.archive)]
                 /\ made' = c
                 /\ tamper' = NoTamper
                 /\ res' = Result("commit", output, Ok("Committed"))

(***************************************************************************)
(* sigil_verify                                                            *)
(***************************************************************************)
\* sigil_verify once the archive is read
VerifyBytes(data) ==
    IF ~starts_with(data, ARCHIVE_HEADER)
    THEN Ok("Warning: missing header")
    ELSE LET sig_pos == position(data, SIGNATURE_MARKER)
             pub_pos == position(data, PUBKEY_MARKER)
             sig_start == sig_pos + Len(SIGNATURE_MARKER)
         IN  IF sig_pos = None
             THEN Err("Invalid archive: missing signature marker")
             ELSE IF pub_pos = None
             THEN Err("Invalid archive: missing pubkey marker")
             ELSE IF Len(ARCHIVE_HEADER) > sig_pos \/ sig_start > pub_pos
             THEN Panic
             ELSE LET signed_data == Slice(data, Len(ARCHIVE_HEADER), sig_pos)
                      signature_bytes == Slice(data, sig_start, pub_pos)
                      pubkey_bytes ==
                          Slice(data, pub_pos + Len(PUBKEY_MARKER), Len(data))
                  IN  IF ~Signature_from_bytes_ok(signature_bytes)
                      THEN Err("Invalid signature")
                      ELSE IF ~PublicKey_from_bytes_ok(pubkey_bytes)
                      THEN Err("Invalid public key")
                      ELSE IF ~ed25519_verify(pubkey_bytes, signed_data, signature_bytes)
                      THEN Err("Signature verification failed")
                      ELSE Ok("Verified signature")

sigil_verify(archive) ==
    /\ res' = Result("verify", archive,
                     IF ~fs[archive].exists THEN Err("Failed to read archive")
                     ELSE VerifyBytes(fs[archive].data))
    /\ UNCHANGED <<fs, made, tamper>>

(***************************************************************************)
(* sigil_recover                                                           *)
(***************************************************************************)
\* sigil_recover once the archive is read: [ret, msg, write, data]
RecoverBytes(data, output) ==
    LET none == [write |-> FALSE, data |-> <<>>]
        sig_pos == position(data, SIGNATURE_MARKER)
    IN  IF ~starts_with(data, ARCHIVE_HEADER)
        THEN Ok("Warning: missing header") @@ none
        ELSE IF sig_pos = None
        THEN Err("Invalid archive: missing signature marker") @@ none
        ELSE IF Len(ARCHIVE_HEADER) > sig_pos
        THEN Panic @@ none
        ELSE LET compressed == Slice(data, Len(ARCHIVE_HEADER), sig_pos)
                 decompressed == zstd_decode_all(compressed)
             IN  IF ~decompressed.ok
                 THEN Err("Failed to decompress data") @@ none
                 ELSE IF ~fs[output].exists
                 THEN Err("Failed to open input file") @@ none
                 ELSE LET seed == generate_seed(fs[output].data)
                          original == apply_chaos(decompressed.data, seed,
                                                  DefaultLevels, FALSE)
                      IN  Ok("Recovered") @@ [write |-> TRUE, data |-> original]

sigil_recover(archive, output) ==
    LET r == IF ~fs[archive].exists
             THEN Err("Failed to read archive") @@ [write |-> FALSE, data |-> <<>>]
             ELSE RecoverBytes(fs[archive].data, output)
    IN  /\ res' = Result("recover", archive, r)
        /\ fs' = IF r.write THEN [fs EXCEPT ![output] = File(r.data)] ELSE fs
        /\ UNCHANGED <<made, tamper>>

(***************************************************************************)
(* sigil_embed and sigil_extract                                           *)
(***************************************************************************)
\* base, then the marker, the archive length and the archive
EmbedBytes(base, sigil) ==
    base \o EMBED_MARKER \o to_le_bytes(Len(sigil)) \o sigil

sigil_embed(input, archive, output) ==
    IF ~fs[input].exists
    THEN /\ res' = Result("embed", output, Err("Failed to read input file"))
         /\ UNCHANGED fs
    ELSE IF ~fs[archive].exists
    THEN /\ res' = Result("embed", output, Err("Failed to read archive"))
         /\ UNCHANGED fs
    ELSE /\ fs' = [fs EXCEPT ![output] =
                       File(EmbedBytes(fs[input].data, fs[archive].data))]
         /\ res' = Result("embed", output, Ok("Embedded"))

\* the archive slice, len read: [ret, msg, write, data]
ExtractLen(data, len_pos, len) ==
    IF len_pos + 8 + len > Len(data)
    THEN Panic @@ [write |-> FALSE, data |-> <<>>]
    ELSE Ok("Extracted") @@
         [write |-> TRUE, data |-> Slice(data, len_pos + 8, len_pos + 8 + len)]

\* the length slice with the marker ending at len_pos
ExtractAt(data, len_pos) ==
    IF len_pos + 8 > Len(data)
    THEN Panic @@ [write |-> FALSE, data |-> <<>>]
    ELSE ExtractLen(data, len_pos, from_le_bytes(Slice(data, len_pos, len_pos + 8)))

\* sigil_extract once the input is read
ExtractBytes(data) ==
    IF rposition(data, EMBED_MARKER) = None
    THEN Ok("No embedded Sigil data found") @@ [write |-> FALSE, data |-> <<>>]
    ELSE ExtractAt(data, rposition(data, EMBED_MARKER) + Len(EMBED_MARKER))

sigil_extract(input, output) ==
    LET r == IF ~fs[input].exists
             THEN Err("Failed to read input file") @@ [write |-> FALSE, data |-> <<>>]
             ELSE ExtractBytes(fs[input].data)
    IN  /\ res' = Result("extract", input, r)
        /\ fs' = IF r.write THEN [fs EXCEPT ![output] = File(r.data)] ELSE fs

(***************************************************************************)
(* sigil_derive                                                            *)
(***************************************************************************)
\* hash[..SECRET_KEY_LENGTH] of the hasher fed the master secret, then the label
DerivedSecret(secret, label) ==
    SubSeq(Sha256Finalize(Sha256Update(Sha256Update(Sha256New, secret), label)),
           1, SECRET_KEY_LENGTH)

\* sigil_derive once the master key is read and parsed
DeriveWith(master, label, output) ==
    LET derived == Keypair_from_bytes(DerivedSecret(master.secret, label))
    IN  IF ~derived.ok
        THEN /\ res' = Result("derive", output, Err("Invalid derived key"))
             /\ UNCHANGED fs
        ELSE /\ fs' = [fs EXCEPT ![output] = File(derived.secret \o derived.public)]
             /\ res' = Result("derive", output, Ok("Derived"))

sigil_derive(label, master_key, output) ==
    IF ~fs[master_key].exists
    THEN /\ res' = Result("derive", output, Err("Failed to read master key"))
         /\ UNCHANGED fs
    ELSE IF ~Keypair_from_bytes(fs[master_key].data).ok
    THEN /\ res' = Result("derive", output, Err("Invalid master key"))
         /\ UNCHANGED fs
    ELSE DeriveWith(Keypair_from_bytes(fs[master_key].data), label, output)

(***************************************************************************)
(* The archive commands: commit, then verify and recover, with the archive *)
(* possibly changed in one byte in between.                                *)
(***************************************************************************)
Junk == <<1, 2, 3>>

\* b"test data", the input of test_commit_verify
TestData == <<116, 101, 115, 116, 32, 100, 97, 116, 97>>

\* PUBKEY_MARKER with its last byte one bit off
NearPubkeyMarker == [PUBKEY_MARKER EXCEPT ![Len(PUBKEY_MARKER)] = 11]

Inputs ==
    {<<>>, TestData, Junk \o PUBKEY_MARKER, Junk \o SIGNATURE_MARKER,
     Junk \o NearPubkeyMarker}

CommitLevels == {0, DefaultLevels}

CompressionLevels == {1, 3}

\* the bits one change of a byte flips
TamperMasks == {1, 128}

Init ==
    /\ ChaosIdle
    /\ \E d \in Inputs :
          fs = [NoFiles EXCEPT !["in"] = File(d), !["key"] = File(KeypairBytes(1))]
    /\ res = NoResult
    /\ made = NotMade
    /\ tamper = NoTamper
    /\ dl = NoLabels
    /\ gs = SeedIdle

Commit ==
    /\ ~made.ok
    /\ \E kp \in {"", "key", "in"}, levels \in CommitLevels,
          cl \in CompressionLevels, gen \in Keys :
          sigil_commit("in", "ar", kp, levels, cl, gen)
    /\ UNCHANGED <<chaosVars, dl, gs>>

Verify ==
    /\ \E a \in {"ar", "in"} : sigil_verify(a)
    /\ UNCHANGED <<chaosVars, dl, gs>>

\* not run again on what it wrote
Recover ==
    /\ (~fs["out"].exists \/ fs["out"] = fs["in"])
    /\ sigil_recover("ar", "out")
    /\ UNCHANGED <<chaosVars, dl, gs>>

\* someone changes one byte of the archive
FlipByte ==
    /\ made.ok /\ tamper = NoTamper /\ ~fs["out"].exists
    /\ \E pos \in 0..(Len(fs["ar"].data) - 1), mask \in TamperMasks :
          /\ fs' = [fs EXCEPT !["ar"].data[pos + 1] = BitXor(@, mask)]
          /\ tamper' = [kind |-> "byte", pos |-> pos]
    /\ res' = Result("env", "ar", Ok("byte changed"))
    /\ UNCHANGED <<chaosVars, made, dl, gs>>

\* the original is already at the output path when recovery starts
PrepareOutput ==
    /\ tamper = NoTamper /\ ~fs["out"].exists
    /\ fs' = [fs EXCEPT !["out"] = fs["in"]]
    /\ res' = Result("env", "out", Ok("copied"))
    /\ UNCHANGED <<chaosVars, made, tamper, dl, gs>>

Next == Commit \/ Verify \/ Recover \/ FlipByte \/ PrepareOutput

Spec == Init /\ [][Next]_vars

\* the segments of the archive sigil_commit wrote: 0-based, end exclusive
PayloadFrom == Len(ARCHIVE_HEADER)

PayloadTo == PayloadFrom + Len(made.compressed)

SignatureFrom == PayloadTo + Len(SIGNATURE_MARKER)

SignatureTo == SignatureFrom + SIGNATURE_LENGTH

Contains(data, pat) == Occurrences(data, pat) # {}

\* the last command ran on a file that is there and starts with the header tag
RanOnHeaded(cmd) ==
    /\ res.cmd = cmd
    /\ fs[res.path].exists
    /\ starts_with(fs[res.path].data, ARCHIVE_HEADER)

\* C2: sigil_verify on the archive sigil_commit wrote, unmodified, returns
\* success with the signature verified, whatever the input, the level count,
\* the compression level and the bytes of payload, signature and public key.
C2_CommitThenVerify ==
    (made.ok /\ tamper = NoTamper /\ res.cmd = "verify" /\ res.path = "ar")
        => (res.ret = "Ok" /\ res.msg = "Verified signature")

\* C3: after one byte of the compressed payload segment or of the signature
\* segment of a committed archive is changed, sigil_verify returns an error.
C3_TamperDetected ==
    (/\ made.ok /\ tamper.kind = "byte"
     /\ \/ tamper.pos \in PayloadFrom..(PayloadTo - 1)
        \/ tamper.pos \in SignatureFrom..(SignatureTo - 1)
     /\ res.cmd = "verify" /\ res.path = "ar")
        => res.ret = "Err"

\* C5: sigil_recover on a committed, unmodified archive succeeds and writes an
\* output file equal to the input bytes of the commit, for any level count.
C5_RecoverInverts ==
    (made.ok /\ tamper = NoTamper /\ res.cmd = "recover")
        => (res.ret = "Ok" /\ fs["out"] = File(made.data))

MalformedArchive ==
    {"Invalid archive: missing signature marker",
     "Invalid archive: missing pubkey marker"}

SignatureInvalid == "Signature verification failed"

\* the public key at the end of data verifies the signature between the two
\* markers over the bytes between the header and the signature marker
SignatureChecks(data, sig_pos, pub_pos) ==
    /\ sig_pos # None /\ pub_pos # None
    /\ Len(ARCHIVE_HEADER) <= sig_pos
    /\ sig_pos + Len(SIGNATURE_MARKER) <= pub_pos
    /\ ed25519_verify(Slice(data, pub_pos + Len(PUBKEY_MARKER), Len(data)),
                      Slice(data, Len(ARCHIVE_HEADER), sig_pos),
                      Slice(data, sig_pos + Len(SIGNATURE_MARKER), pub_pos))

\* C7: on an archive that starts with the header, sigil_verify returns a
\* malformed-archive error when the signature marker or the pubkey marker is
\* absent, sigil_recover does when the signature marker is absent, and the
\* signature-invalid error is another one: it is returned only with both
\* markers there, and it is what a failed cryptographic check returns.
C7_MalformedDistinct ==
    /\ SignatureInvalid \notin MalformedArchive
    /\ (/\ RanOnHeaded("verify")
        /\ \/ ~Contains(fs[res.path].data, SIGNATURE_MARKER)
           \/ ~Contains(fs[res.path].data, PUBKEY_MARKER))
          => (res.ret = "Err" /\ res.msg \in MalformedArchive)
    /\ (/\ RanOnHeaded("recover")
        /\ ~Contains(fs[res.path].data, SIGNATURE_MARKER))
          => (res.ret = "Err"
              /\ res.msg = "Invalid archive: missing signature marker")
    /\ (RanOnHeaded("verify") /\ res.msg = SignatureInvalid)
          => (/\ res.ret = "Err"
              /\ Contains(fs[res.path].data, SIGNATURE_MARKER)
              /\ Contains(fs[res.path].data, PUBKEY_MARKER)
              /\ ~SignatureChecks(fs[res.path].data,
                                  SetMin(Occurrences(fs[res.path].data, SIGNATURE_MARKER)),
                                  SetMin(Occurrences(fs[res.path].data, PUBKEY_MARKER))))

\* sigil_verify has met an archive with its header and signature marker whose
\* pubkey marker is gone, and sigil_recover one whose signature marker is gone
C7_Witness ==
    /\ RanOnHeaded("verify")
    /\ Contains(fs[res.path].data, SIGNATURE_MARKER)
    /\ ~Contains(fs[res.path].data, PUBKEY_MARKER)
    /\ res.msg = "Invalid archive: missing pubkey marker"
    /\ tamper.kind = "byte"

\* C9: sigil_verify returns Ok only for a byte sequence that starts with the
\* header tag and whose bytes between the header and the first signature
\* marker verify under the embedded public key with the embedded signature.
C9_OkOnlyIfChecked ==
    (res.cmd = "verify" /\ res.ret = "Ok")
        => /\ RanOnHeaded("verify")
           /\ SignatureChecks(fs[res.path].data,
                              position(fs[res.path].data, SIGNATURE_MARKER),
                              position(fs[res.path].data, PUBKEY_MARKER))

\* C10: for a byte sequence that starts with the header and contains both
\* markers, header_len <= sig_pos, sig_pos + sig_marker_len <= pub_pos and
\* pub_pos + pubkey_marker_len <= len, and sigil_verify ends with success or
\* an error value, never an abort.
C10_MarkerOrder ==
    (/\ RanOnHeaded("verify")
     /\ Contains(fs[res.path].data, SIGNATURE_MARKER)
     /\ Contains(fs[res.path].data, PUBKEY_MARKER))
        => /\ Len(ARCHIVE_HEADER) <= position(fs[res.path].data, SIGNATURE_MARKER)
           /\ position(fs[res.path].data, SIGNATURE_MARKER) + Len(SIGNATURE_MARKER)
                  <= position(fs[res.path].data, PUBKEY_MARKER)
           /\ position(fs[res.path].data, PUBKEY_MARKER) + Len(PUBKEY_MARKER)
                  <= Len(fs[res.path].data)
           /\ res.ret \in {"Ok", "Err"}

(***************************************************************************)
(* apply_chaos forward, then in reverse, on chosen data, seed and levels   *)
(***************************************************************************)
MaxChaosLevels == 3

ChaosInputs == {<<>>, <<0>>, Junk, TestData, <<255, 255>>}

ChaosSeeds ==
    {to_le_bytes(0), to_le_bytes(12345), to_le_bytes(50000), [i \in 1..8 |-> 255]}

InitChaos ==
    /\ c_data \in ChaosInputs
    /\ c_seed \in ChaosSeeds
    /\ c_levels \in 0..MaxChaosLevels
    /\ c_fwd = <<>> /\ c_back = <<>> /\ c_pc = "start"
    /\ fs = NoFiles /\ res = NoResult /\ made = NotMade /\ tamper = NoTamper
    /\ dl = NoLabels /\ gs = SeedIdle

\* let transformed = apply_chaos(data, seed, levels, true)
ChaosForward ==
    /\ c_pc = "start"
    /\ c_fwd' = apply_chaos(c_data, c_seed, c_levels, TRUE)
    /\ c_pc' = "forward"
    /\ UNCHANGED <<c_data, c_seed, c_levels, c_back, fs, res, made, tamper, dl, gs>>

\* let recovered = apply_chaos(&transformed, seed, levels, false)
ChaosInverse ==
    /\ c_pc = "forward"
    /\ c_back' = apply_chaos(c_fwd, c_seed, c_levels, FALSE)
    /\ c_pc' = "done"
    /\ UNCHANGED <<c_data, c_seed, c_levels, c_fwd, fs, res, made, tamper, dl, gs>>

NextChaos == ChaosForward \/ ChaosInverse

SpecChaos == InitChaos /\ [][NextChaos]_vars

\* C1: apply_chaos in reverse, on what apply_chaos forward returned, with the
\* same seed and the same levels, returns the data: same length, same bytes.
C1_ChaosRoundTrip == c_pc = "done" => c_back = c_data

(***************************************************************************)
(* generate_seed, one window at a time, on files of chosen lengths         *)
(***************************************************************************)
MaxSeedLen == 12

\* a file of n bytes; k tells two files of one length apart
SeedFile(n, k) == [i \in 1..n |-> ((i * 37) + k) % 256]

InitSeed ==
    /\ ChaosIdle
    /\ \E n \in 0..MaxSeedLen, k \in {0, 1} :
          fs = [NoFiles EXCEPT !["in"] = File(SeedFile(n, 0)),
                               !["out"] = File(SeedFile(n, k))]
    /\ res = NoResult /\ made = NotMade /\ tamper = NoTamper
    /\ dl = NoLabels /\ gs = SeedIdle

\* File::open, Sha256::new, file.metadata()?.len() / 10
SeedOpen ==
    /\ gs.pc \in {"idle", "done"}
    /\ \E p \in SeedPaths :
          IF ~fs[p].exists
          THEN /\ res' = Result("generate_seed", p, Err("Failed to open input file"))
               /\ gs' = [gs EXCEPT !.pc = "idle"]
          ELSE /\ res' = Result("generate_seed", p, [ret |-> "", msg |-> "Generating seed"])
               /\ gs' = [gs EXCEPT !.pc = "loop", !.path = p, !.i = 0,
                                   !.step = SeedStep(Len(fs[p].data)),
                                   !.hasher = Sha256New, !.offsets = <<>>]
    /\ UNCHANGED <<chaosVars, fs, made, tamper, dl>>

\* one turn of the loop: seek, read, update
SeedWindow ==
    /\ gs.pc = "loop" /\ gs.i < SeedWindows
    /\ gs' = [gs EXCEPT !.i = @ + 1,
                        !.hasher = Sha256Update(@, SeedRead(fs[gs.path].data,
                                                            gs.i * gs.step)),
                        !.offsets = Append(@, gs.i * gs.step)]
    /\ UNCHANGED <<chaosVars, fs, res, made, tamper, dl>>

\* hasher.finalize(), the first 8 bytes
SeedFinish ==
    /\ gs.pc = "loop" /\ gs.i = SeedWindows
    /\ gs' = [gs EXCEPT !.pc = "done",
                        !.seeds[gs.path] = SeedOfDigest(Sha256Finalize(gs.hasher))]
    /\ res' = Result("generate_seed", gs.path, Ok("Seed generated"))
    /\ UNCHANGED <<chaosVars, fs, made, tamper, dl>>

NextSeed == SeedOpen \/ SeedWindow \/ SeedFinish

SpecSeed == InitSeed /\ [][NextSeed]_vars

RECURSIVE WindowsFrom(_, _)
\* the bytes from offset w * floor(size / 10) on, for w = i..9, one after another
WindowsFrom(data, w) ==
    IF w > 9 THEN <<>>
    ELSE SubSeq(data, (w * (Len(data) \div 10)) + 1, Len(data))
            \o WindowsFrom(data, w + 1)

\* C8: generate_seed hashes, in order, the ten windows at offsets
\* i * floor(size / 10), i = 0..9, and returns the first 8 digest bytes; files
\* with identical bytes get the same seed; with size < 10 every window starts
\* at offset 0 and the call still returns a seed.
C8_SeedDeterministic ==
    /\ \A p, q \in SeedPaths :
          (gs.seeds[p] # <<>> /\ gs.seeds[q] # <<>> /\ fs[p].data = fs[q].data)
              => gs.seeds[p] = gs.seeds[q]
    /\ gs.pc = "done"
          => /\ res.ret = "Ok"
             /\ gs.offsets = [w \in 1..10 |-> (w - 1) * (Len(fs[gs.path].data) \div 10)]
             /\ Len(fs[gs.path].data) < 10 => \A w \in 1..10 : gs.offsets[w] = 0
             /\ gs.seeds[gs.path] = SubSeq(Sha256(WindowsFrom(fs[gs.path].data, 0)), 1, 8)
             /\ gs.seeds[gs.path] = generate_seed(fs[gs.path].data)

\* two files of the same bytes, shorter than ten bytes, have both been seeded
C8_Witness ==
    /\ gs.pc = "done"
    /\ Len(fs["in"].data) \in 1..9
    /\ fs["in"].data = fs["out"].data
    /\ gs.seeds["in"] # <<>> /\ gs.seeds["out"] # <<>>

(***************************************************************************)
(* sigil_embed, then sigil_extract, on chosen host and archive bytes       *)
(***************************************************************************)
Zeros(n) == [i \in 1..n |-> 0]

Hosts == {<<>>, Junk, EMBED_MARKER, Junk \o EMBED_MARKER \o Zeros(8), TestData}

EmbeddedArchives ==
    {<<>>, Junk, TestData, EMBED_MARKER, EMBED_MARKER \o Zeros(8),
     Junk \o EMBED_MARKER \o to_le_bytes(Len(Junk)) \o Junk}

InitEmbed ==
    /\ ChaosIdle
    /\ \E H \in Hosts, A \in EmbeddedArchives :
          fs = [NoFiles EXCEPT !["host"] = File(H), !["ar"] = File(A)]
    /\ res = NoResult /\ made = NotMade /\ tamper = NoTamper
    /\ dl = NoLabels /\ gs = SeedIdle

Embed ==
    /\ \E a \in {"ar", "in"} : sigil_embed("host", a, "media")
    /\ UNCHANGED <<chaosVars, made, tamper, dl, gs>>

Extract ==
    /\ \E m \in {"media", "host"} : sigil_extract(m, "out")
    /\ UNCHANGED <<chaosVars, made, tamper, dl, gs>>

NextEmbed == Embed \/ Extract

SpecEmbed == InitEmbed /\ [][NextEmbed]_vars

\* C4: sigil_extract on what sigil_embed wrote for host bytes H and archive
\* bytes A succeeds and writes exactly A, marker bytes inside H or A or not.
C4_EmbedExtractRoundTrip ==
    (/\ res.cmd = "extract" /\ res.path = "media"
     /\ fs["media"] = File(EmbedBytes(fs["host"].data, fs["ar"].data)))
        => (res.ret = "Ok" /\ fs["out"] = File(fs["ar"].data))

(***************************************************************************)
(* sigil_derive from a master key file, with chosen labels                 *)
(***************************************************************************)
\* "", "a", "b", "ab", "ba"
Labels == {<<>>, <<97>>, <<98>>, <<97, 98>>, <<98, 97>>}

InitDerive ==
    /\ ChaosIdle
    /\ \E master \in {File(KeypairBytes(k)) : k \in Keys} \cup {File(Junk), NoFile} :
          fs = [NoFiles EXCEPT !["key"] = master]
    /\ res = NoResult /\ made = NotMade /\ tamper = NoTamper
    /\ dl = NoLabels /\ gs = SeedIdle

Derive ==
    /\ \E label \in Labels, output \in DerivedPaths :
          /\ sigil_derive(label, "key", output)
          /\ dl' = [dl EXCEPT ![output] = label]
    /\ UNCHANGED <<chaosVars, made, tamper, gs>>

NextDerive == Derive

SpecDerive == InitDerive /\ [][NextDerive]_vars

\* C6: with a valid master keypair sigil_derive succeeds and writes a keypair
\* whose secret is the hash of the master secret followed by the label: the
\* same label gives the same keypair, two different labels different ones.
C6_DeriveSeparates ==
    (fs["key"].exists /\ Keypair_from_bytes(fs["key"].data).ok)
        => /\ res.cmd = "derive" => res.ret = "Ok"
           /\ \A p \in DerivedPaths :
                 dl[p] # NoLabel
                     => /\ fs[p].exists
                        /\ SubSeq(fs[p].data, 1, SECRET_KEY_LENGTH)
                              = SubSeq(Sha256(SubSeq(fs["key"].data, 1, SECRET_KEY_LENGTH)
                                                  \o dl[p]),
                                       1, SECRET_KEY_LENGTH)
           /\ \A p, q \in DerivedPaths :
                 (dl[p] # NoLabel /\ dl[q] # NoLabel)
                     => (dl[p] = dl[q] <=> fs[p] = fs[q])

====
